---------------------------- MODULE Spec2Model ----------------------------
(***************************************************************************)
(* CarbonLookasideRoute (mcrouter): a route handle that looks a request up  *)
(* in memcache before forwarding it to its child, and stores the child's    *)
(* reply afterwards.  The model follows route() through its suspension      *)
(* points (the cache read reply, the back-off sleep of the lease read, the  *)
(* child's reply), the detached write task, and a memcache server with      *)
(* leases on the other side of the cache client.                            *)
(***************************************************************************)
EXTENDS Integers, Sequences, FiniteSets, TLC

(***************************************************************************)
(* Bounds of the model.                                                     *)
(***************************************************************************)
\* Number of route() calls that may be in flight together.
NumCalls == 2
\* Largest numRetries a configuration is drawn with.
MaxRetries == 2

(***************************************************************************)
(* Program constants.                                                       *)
(***************************************************************************)
\* LeaseSettings defaults.
DefaultInitialWaitMs == 2
DefaultMaxWaitMs == 500
DefaultNumRetries == 10
\* constexpr size_t kLeaseHotMissToken = 1;
kLeaseHotMissToken == 1
\* int32_t range of the LeaseSettings fields.
MaxInt32 == 2147483647
MinInt32 == (-2147483647) - 1
\* Largest magnitude whose double still fits an int32_t.
HalfInt32 == 1073741824

Min(a, b) == IF a < b THEN a ELSE b

\* An empty folly::Optional / an absent value, and a present one.
None == [none |-> TRUE]
Some(x) == [some |-> x]

(***************************************************************************)
(* Requests, replies and the helper.                                        *)
(***************************************************************************)
LogicalKeys == {<<"k">>, <<"j">>}
\* A request as the helper sees it: its logical key and whether the policy
\* accepts it.
Requests == [key : LogicalKeys, shouldCache : BOOLEAN]

\* CarbonLookasideHelper::cacheCandidate and ::buildKey (user defined).
HelperCacheCandidate(req) == req.shouldCache
HelperBuildKey(req) == req.key

\* HelloReply: result() and message().
\* The replies the child is drawn to return: two successes that differ in
\* the message, and a failure.
Replies ==
    {[result |-> "OK", message |-> "hi"], [result |-> "OK", message |-> ""],
     [result |-> "REMOTE_ERROR", message |-> ""]}
\* A default-constructed reply.
DefaultReply == [result |-> "UNKNOWN", message |-> ""]
IsFailure(reply) == reply.result # "OK"

(***************************************************************************)
(* The reply codec: a struct is written as its fields in order, each with   *)
(* its field id; the reader assigns the fields it knows and skips the rest. *)
(***************************************************************************)
Serialize(reply) ==
    << [id |-> 1, val |-> reply.result], [id |-> 2, val |-> reply.message] >>

RECURSIVE ReadFields(_, _)
ReadFields(fields, reply) ==
    IF fields = << >> THEN reply
    ELSE LET f == Head(fields)
             r == IF f.id = 1 THEN [reply EXCEPT !.result = f.val]
                  ELSE IF f.id = 2 THEN [reply EXCEPT !.message = f.val]
                  ELSE reply
         IN  ReadFields(Tail(fields), r)

\* Faulty variant: only the result field is read back.
DeserializeResultOnly(payload) ==
    ReadFields(SelectSeq(payload, LAMBDA f : f.id = 1), DefaultReply)

\* ReplyT<Request> reply; reply.deserialize(reader);
Deserialize(payload) == ReadFields(payload, DefaultReply)

Payloads == {Serialize(r) : r \in Replies}

\* Values that are not the serialization of a reply: the fields of another
\* struct, and a reply's result followed by a field the reply does not have.
ForeignPayloads ==
    {<< [id |-> 3, val |-> "x"] >>,
     << [id |-> 1, val |-> "OK"], [id |-> 3, val |-> "x"] >>}

(***************************************************************************)
(* Configuration of one route instance.                                     *)
(***************************************************************************)
Prefixes == {<< >>, <<"p", ":">>}
KeySplitSizes == {1, 4}
HostIds == {6}
Ttls == {10}
InitialWaits == {2}
MaxWaits == {8}
\* numRetries is an int32_t: a negative value makes the loop run no attempt.
RetryValues == (-2) .. MaxRetries

DigitChars == <<"0", "1", "2", "3", "4", "5", "6", "7", "8", "9">>

RECURSIVE Decimal(_)
Decimal(n) ==
    IF n < 10 THEN << DigitChars[n + 1] >>
    ELSE Decimal(n \div 10) \o << DigitChars[(n % 10) + 1] >>

\* Faulty variant: the host id is not reduced modulo keySplitSize.
BuildKeySuffixRawHostId(keySplitSize, hostid) ==
    IF keySplitSize <= 1 THEN << >>
    ELSE <<":", "k", "s">> \o Decimal(hostid)

\* CarbonLookasideRoute::buildKeySuffix
BuildKeySuffix(keySplitSize, hostid) ==
    IF keySplitSize <= 1 THEN << >>
    ELSE <<":", "k", "s">> \o Decimal(hostid % keySplitSize)

LeaseSettingsSet ==
    [enableLeases : {TRUE}, initialWaitMs : InitialWaits,
     maxWaitMs : MaxWaits, numRetries : RetryValues]
      \cup
    {[enableLeases |-> FALSE, initialWaitMs |-> DefaultInitialWaitMs,
      maxWaitMs |-> DefaultMaxWaitMs, numRetries |-> DefaultNumRetries]}


\* The arguments of the constructor; router and client are never null there
\* (assert(router_); assert(client_);).
Configs ==
    [child : {"child"}, router : {"router"}, client : {"client"},
     keyPrefix : Prefixes, keySplitSize : KeySplitSizes, hostid : HostIds,
     ttl : Ttls, leaseSettings : LeaseSettingsSet]

AllKeys ==
    {p \o k \o BuildKeySuffix(s, h) :
        p \in Prefixes, k \in LogicalKeys, s \in KeySplitSizes, h \in HostIds}

Calls == 1 .. NumCalls

(***************************************************************************)
(* State.                                                                   *)
(*   route   the members of the route instance, set by the constructor, and *)
(*           whether the instance still exists                              *)
(*   fiber   per route() call: where it is suspended and its locals         *)
(*   tasks   the detached write tasks handed to the fiber manager           *)
(*   cache   the memcache server: stored values, leases, tokens minted      *)
(*   hist    per route() call: what it has done so far (history only)       *)
(***************************************************************************)
VARIABLES route, fiber, tasks, cache, hist

vars == <<route, fiber, tasks, cache, hist>>

\* CarbonLookasideRoute::CarbonLookasideRoute
Construct(c) ==
    [child |-> c.child,
     router |-> c.router,
     client |-> c.client,
     keyPrefix |-> c.keyPrefix,
     keySuffix |-> BuildKeySuffix(c.keySplitSize, c.hostid),
     ttl |-> c.ttl,
     leaseSettings |-> c.leaseSettings,
     alive |-> TRUE]

IdleFiber ==
    [pc |-> "idle", req |-> None, cacheCandidate |-> FALSE, key |-> << >>,
     leaseToken |-> 0, attempt |-> 0, nextInterval |-> 0, ret |-> None,
     reply |-> None]

EmptyHist ==
    [reads |-> << >>, got |-> << >>, sleeps |-> << >>, childCalls |-> 0,
     childReply |-> None, returned |-> None]

EmptyCache ==
    [store |-> [k \in AllKeys |-> None], lease |-> [k \in AllKeys |-> 0],
     minted |-> 0]

Init ==
    /\ route \in {Construct(c) : c \in Configs}
    /\ fiber = [c \in Calls |-> IdleFiber]
    /\ tasks = << >>
    /\ cache = EmptyCache
    /\ hist = [c \in Calls |-> EmptyHist]

(***************************************************************************)
(* The memcache server, as seen through the cache client.                   *)
(***************************************************************************)
IsHitResult(cacheReply) == cacheReply.result = "hit"
IsMissResult(cacheReply) == cacheReply.result = "miss"
HasValue(cacheReply) == cacheReply.value # None

CacheReply(result, value, token) ==
    [result |-> result, value |-> value, leaseToken |-> token]

\* Replies to GET key: the stored value, a miss (the key is absent or has
\* expired), a hit that carries no value, or an error.
GetReplies(key) ==
    {CacheReply("miss", None, 0), CacheReply("other", None, 0),
     CacheReply("hit", None, 0)}
      \cup
    (IF cache.store[key] = None THEN {}
     ELSE {CacheReply("hit", cache.store[key], 0)})

\* The token a LEASE_GET miss hands out: a fresh one when nobody holds the
\* lease of the key, the hot-miss token otherwise.
FreshToken == cache.minted + 2
MissToken(key) ==
    IF cache.lease[key] = 0 THEN FreshToken ELSE kLeaseHotMissToken

LeaseGetReplies(key) ==
    {CacheReply("miss", None, MissToken(key)), CacheReply("miss", None, 0),
     CacheReply("other", None, 0), CacheReply("hit", None, 0)}
      \cup
    (IF cache.store[key] = None THEN {}
     ELSE {CacheReply("hit", cache.store[key], 0)})

\* The server after answering cacheReply to LEASE_GET key.
CacheAfterLeaseGet(key, cacheReply) ==
    IF IsMissResult(cacheReply) /\ cacheReply.leaseToken = FreshToken
    THEN [cache EXCEPT !.lease[key] = FreshToken, !.minted = @ + 1]
    ELSE cache

\* Outcomes of a write request: stored, rejected (LEASE_SET whose token is
\* not the key's current lease), or a transport error.
WriteOutcomes(req) ==
    IF req.op = "LEASE_SET" /\ cache.lease[req.key] # req.leaseToken
    THEN {"rejected", "error"}
    ELSE {"stored", "error"}

CacheAfterWrite(req, outcome) ==
    IF outcome = "stored"
    THEN [cache EXCEPT !.store[req.key] = Some(req.value),
                       !.lease[req.key] = 0]
    ELSE cache

(***************************************************************************)
(* route() and what it calls.                                               *)
(***************************************************************************)
\* Faulty variant: the policy's answer is ignored and every request is cached.
RouteCacheCandidateAlways(req) == TRUE

\* bool cacheCandidate = carbonLookasideHelper_.cacheCandidate(req);
RouteCacheCandidate(req) == HelperCacheCandidate(req)

\* Faulty variant: the key suffix is left out of the key.
BuildKeyNoSuffix(req) == route.keyPrefix \o HelperBuildKey(req)

\* CarbonLookasideRoute::buildKey
BuildKey(req) == route.keyPrefix \o HelperBuildKey(req) \o route.keySuffix

\* The callback of carbonLookasideGet(key): the reply it leaves in ret.
GetCallback(cacheReply) ==
    IF IsHitResult(cacheReply) /\ HasValue(cacheReply)
    THEN Deserialize(cacheReply.value.some)
    ELSE None

\* Faulty variant: the hot-miss token is kept as the lease token.
LeaseGetCallbackKeepsHotToken(cacheReply, leaseToken) ==
    IF IsHitResult(cacheReply) /\ HasValue(cacheReply)
    THEN [ret |-> Deserialize(cacheReply.value.some), retry |-> FALSE,
          leaseToken |-> leaseToken]
    ELSE IF IsMissResult(cacheReply)
    THEN [ret |-> None,
          retry |-> cacheReply.leaseToken = kLeaseHotMissToken,
          leaseToken |-> cacheReply.leaseToken]
    ELSE [ret |-> None, retry |-> FALSE, leaseToken |-> leaseToken]

\* Faulty variant: a reply that is neither a hit nor a miss is retried.
LeaseGetCallbackRetriesOnError(cacheReply, leaseToken) ==
    IF IsHitResult(cacheReply) /\ HasValue(cacheReply)
    THEN [ret |-> Deserialize(cacheReply.value.some), retry |-> FALSE,
          leaseToken |-> leaseToken]
    ELSE IF IsMissResult(cacheReply)
    THEN IF cacheReply.leaseToken = kLeaseHotMissToken
         THEN [ret |-> None, retry |-> TRUE, leaseToken |-> leaseToken]
         ELSE [ret |-> None, retry |-> FALSE,
               leaseToken |-> cacheReply.leaseToken]
    ELSE [ret |-> None, retry |-> TRUE, leaseToken |-> leaseToken]

\* The callback of carbonLookasideLeaseGet: what it leaves in ret, retry and
\* leaseToken (leaseToken is the caller's, passed by reference).
LeaseGetCallback(cacheReply, leaseToken) ==
    IF IsHitResult(cacheReply) /\ HasValue(cacheReply)
    THEN [ret |-> Deserialize(cacheReply.value.some), retry |-> FALSE,
          leaseToken |-> leaseToken]
    ELSE IF IsMissResult(cacheReply)
    THEN IF cacheReply.leaseToken = kLeaseHotMissToken
         THEN [ret |-> None, retry |-> TRUE, leaseToken |-> leaseToken]
         ELSE [ret |-> None, retry |-> FALSE,
               leaseToken |-> cacheReply.leaseToken]
    ELSE [ret |-> None, retry |-> FALSE, leaseToken |-> leaseToken]

\* Faulty variant: the loop runs one attempt too many.
LoopRunsOneMore(attempt) == attempt <= route.leaseSettings.numRetries + 1

\* for (int32_t attempt = 0; attempt <= leaseSettings_.numRetries; ++attempt)
LoopRuns(attempt) == attempt <= route.leaseSettings.numRetries

\* nextInterval * 2 in int32_t: signed overflow is undefined; the builds at
\* hand wrap around or fold the comparison, so either value may come out.
Doubled(nextInterval) ==
    IF nextInterval >= HalfInt32
    THEN {(nextInterval - HalfInt32) * 2 + MinInt32, MaxInt32}
    ELSE IF nextInterval < -HalfInt32
    THEN {(nextInterval + HalfInt32) * 2 + MaxInt32 + 1, MinInt32}
    ELSE {nextInterval * 2}

\* Faulty variant: the doubled interval is not capped.
NextIntervalsUncapped(nextInterval) == Doubled(nextInterval)

\* nextInterval = std::min(nextInterval * 2, leaseSettings_.maxWaitMs);
NextIntervals(nextInterval) ==
    {Min(d, route.leaseSettings.maxWaitMs) : d \in Doubled(nextInterval)}

\* Faulty variant: the LEASE_SET carries the token the server minted last,
\* whoever received it.
LeaseSetRequestLatestToken(key, reply, leaseToken) ==
    [op |-> "LEASE_SET", key |-> key, exptime |-> route.ttl,
     value |-> Serialize(reply), leaseToken |-> cache.minted + 1]

\* carbonLookasideSet(key, reply, leaseToken): the cache request it builds.
LeaseSetRequest(key, reply, leaseToken) ==
    [op |-> "LEASE_SET", key |-> key, exptime |-> route.ttl,
     value |-> Serialize(reply), leaseToken |-> leaseToken]

\* Faulty variant: the plain SET is written without the configured ttl.
SetRequestNoTtl(key, reply) ==
    [op |-> "SET", key |-> key, exptime |-> 0,
     value |-> Serialize(reply), leaseToken |-> 0]

SetRequest(key, reply) ==
    [op |-> "SET", key |-> key, exptime |-> route.ttl,
     value |-> Serialize(reply), leaseToken |-> 0]

\* Faulty variant: with leases enabled the write is always a LEASE_SET.
CarbonLookasideSetByLeasesOnly(key, reply, leaseToken) ==
    IF route.leaseSettings.enableLeases
    THEN LeaseSetRequest(key, reply, leaseToken)
    ELSE SetRequest(key, reply)

CarbonLookasideSet(key, reply, leaseToken) ==
    IF route.leaseSettings.enableLeases /\ leaseToken # 0
    THEN LeaseSetRequest(key, reply, leaseToken)
    ELSE SetRequest(key, reply)

\* folly::fibers::addTask([this, req = std::move(req)]() {...}): the task
\* owns the request and holds the route instance by a plain pointer.
AddTask(c, req) == [call |-> c, state |-> "queued", req |-> req,
                    sends |-> 0, outcome |-> "none",
                    captures |-> {"this", "req"}, thisAtRun |-> "unused"]

\* Faulty variant: a failure reply of the child is not written.
WritesAfterChildSkipsFailure(c, f, reply) ==
    IF f.cacheCandidate /\ ~IsFailure(reply)
    THEN << AddTask(c, [op |-> "SET", key |-> f.key, exptime |-> route.ttl,
                        value |-> Serialize(reply), leaseToken |-> 0]) >>
    ELSE << >>

\* if (cacheCandidate) { carbonLookasideSet(key, reply, leaseToken); }
WritesAfterChild(c, f, reply) ==
    IF f.cacheCandidate
    THEN << AddTask(c, CarbonLookasideSet(f.key, reply, f.leaseToken)) >>
    ELSE << >>

\* Faulty variant: a cached reply is never returned early.
ReturnsCachedNever(ret) == FALSE

\* if (auto optReply = carbonLookasideGet<Request>(key, leaseToken))
ReturnsCached(ret) == ret # None

\* The cache read request a call sends.
ReadRequest(op, key) == [op |-> op, key |-> key]

\* The rest of route() once the read path has returned ret: return the
\* cached reply, or enter child_->route(req).
AfterReadFiber(f, ret) ==
    IF ReturnsCached(ret)
    THEN [f EXCEPT !.pc = "done", !.ret = ret]
    ELSE [f EXCEPT !.pc = "child_wait", !.ret = ret]

AfterReadHist(h, ret) ==
    IF ReturnsCached(ret)
    THEN [h EXCEPT !.returned = ret]
    ELSE [h EXCEPT !.childCalls = @ + 1]

\* Faulty variant: the read is sent and the child is entered without waiting
\* for the reply.
RouteBeginChildFirst(c, req) ==
    /\ fiber[c].pc = "idle"
    /\ LET cand == RouteCacheCandidate(req)
           f0 == [IdleFiber EXCEPT !.req = req, !.cacheCandidate = cand,
                                   !.key = IF cand THEN BuildKey(req)
                                           ELSE << >>,
                                   !.pc = "child_wait"]
       IN  /\ fiber' = [fiber EXCEPT ![c] = f0]
           /\ hist' = [hist EXCEPT ![c] =
                           [@ EXCEPT !.childCalls = @ + 1,
                                     !.reads =
                                        IF cand
                                        THEN Append(@, ReadRequest("GET",
                                                                   f0.key))
                                        ELSE @]]
    /\ UNCHANGED <<route, tasks, cache>>

\* route(req) up to its first suspension: the policy check, the key, and
\* the first read request (or the child, when there is none to send).
RouteBegin(c, req) ==
    /\ fiber[c].pc = "idle"
    /\ LET cand == RouteCacheCandidate(req)
           f0 == [IdleFiber EXCEPT !.req = req, !.cacheCandidate = cand,
                                   !.key = IF cand THEN BuildKey(req)
                                           ELSE << >>]
           f1 == [f0 EXCEPT
                    !.nextInterval = route.leaseSettings.initialWaitMs]
       IN  IF ~cand
           THEN /\ fiber' = [fiber EXCEPT ![c] = AfterReadFiber(f0, None)]
                /\ hist' = [hist EXCEPT ![c] = AfterReadHist(@, None)]
           ELSE IF ~route.leaseSettings.enableLeases
           THEN /\ fiber' = [fiber EXCEPT ![c] = [f0 EXCEPT !.pc = "get_wait"]]
                /\ hist' = [hist EXCEPT ![c].reads =
                                Append(@, ReadRequest("GET", f0.key))]
           ELSE IF LoopRuns(0)
           THEN /\ fiber' = [fiber EXCEPT ![c] =
                                [f1 EXCEPT !.pc = "lease_wait"]]
                /\ hist' = [hist EXCEPT ![c].reads =
                                Append(@, ReadRequest("LEASE_GET", f1.key))]
           ELSE /\ fiber' = [fiber EXCEPT ![c] = AfterReadFiber(f1, None)]
                /\ hist' = [hist EXCEPT ![c] = AfterReadHist(@, None)]
    /\ UNCHANGED <<route, tasks, cache>>

\* The GET reply arrives: the callback runs, baton.wait() returns, and
\* route() goes on to return the cached reply or to enter the child.
GetReply(c, cacheReply) ==
    /\ fiber[c].pc = "get_wait"
    /\ cacheReply \in GetReplies(fiber[c].key)
    /\ LET ret == GetCallback(cacheReply)
           h == [hist[c] EXCEPT !.got = Append(@, cacheReply)]
       IN  /\ fiber' = [fiber EXCEPT ![c] = AfterReadFiber(@, ret)]
           /\ hist' = [hist EXCEPT ![c] = AfterReadHist(h, ret)]
    /\ UNCHANGED <<route, tasks, cache>>

\* The LEASE_GET reply arrives: the callback runs, and the loop either
\* returns, starts the back-off sleep of the next attempt, or runs out.
LeaseGetReply(c, cacheReply) ==
    /\ fiber[c].pc = "lease_wait"
    /\ cacheReply \in LeaseGetReplies(fiber[c].key)
    /\ cache' = CacheAfterLeaseGet(fiber[c].key, cacheReply)
    /\ LET cb == LeaseGetCallback(cacheReply, fiber[c].leaseToken)
           f == [fiber[c] EXCEPT !.leaseToken = cb.leaseToken]
           h == [hist[c] EXCEPT !.got = Append(@, cacheReply)]
       IN  IF ~cb.retry
           THEN /\ fiber' = [fiber EXCEPT ![c] = AfterReadFiber(f, cb.ret)]
                /\ hist' = [hist EXCEPT ![c] = AfterReadHist(h, cb.ret)]
           ELSE IF LoopRuns(f.attempt + 1)
           THEN /\ fiber' = [fiber EXCEPT ![c] =
                                [f EXCEPT !.attempt = @ + 1, !.pc = "sleep"]]
                /\ hist' = [hist EXCEPT ![c] =
                                [h EXCEPT !.sleeps =
                                              Append(@, f.nextInterval)]]
           ELSE /\ fiber' = [fiber EXCEPT ![c] =
                                AfterReadFiber([f EXCEPT !.attempt = @ + 1],
                                               cb.ret)]
                /\ hist' = [hist EXCEPT ![c] = AfterReadHist(h, cb.ret)]
    /\ UNCHANGED <<route, tasks>>

\* sleepBaton.try_wait_for() times out: the interval is doubled and capped,
\* and the next LEASE_GET is sent.
SleepDone(c) ==
    /\ fiber[c].pc = "sleep"
    /\ \E interval \in NextIntervals(fiber[c].nextInterval) :
          fiber' = [fiber EXCEPT ![c] = [@ EXCEPT !.nextInterval = interval,
                                                  !.pc = "lease_wait"]]
    /\ hist' = [hist EXCEPT ![c].reads =
                    Append(@, ReadRequest("LEASE_GET", fiber[c].key))]
    /\ UNCHANGED <<route, tasks, cache>>

\* Faulty variant: route() returns what the read path left instead of the child's
\* reply.
RouteReturnStale(f, reply) == IF f.ret = None THEN DefaultReply ELSE f.ret

\* return reply;
RouteReturn(f, reply) == reply

\* Faulty variant: after handing over the write, route() waits for the
\* write to be answered before it returns.
ChildReturnAwaitsWrite(c, reply) ==
    /\ fiber[c].pc = "child_wait"
    /\ fiber' = [fiber EXCEPT ![c] =
                    [@ EXCEPT !.reply = reply,
                              !.pc = IF fiber[c].cacheCandidate
                                     THEN "write_wait" ELSE "done"]]
    /\ tasks' = tasks \o WritesAfterChild(c, fiber[c], reply)
    /\ hist' = [hist EXCEPT ![c] = [@ EXCEPT !.childReply = reply]]
    /\ UNCHANGED <<route, cache>>

\* child_->route(req) returns: the write is handed to the fiber manager
\* when the request was a candidate, and route() returns the reply.
ChildReturn(c, reply) ==
    /\ fiber[c].pc = "child_wait"
    /\ fiber' = [fiber EXCEPT ![c] = [@ EXCEPT !.reply = reply, !.pc = "done"]]
    /\ tasks' = tasks \o WritesAfterChild(c, fiber[c], reply)
    /\ hist' = [hist EXCEPT ![c] =
                    [@ EXCEPT !.childReply = reply,
                              !.returned = RouteReturn(fiber[c], reply)]]
    /\ UNCHANGED <<route, cache>>

\* client_->send(req, ...) in the task is this->client_->send(req, ...).
\* While the route instance exists the request is sent.  Once it has been
\* destroyed the read of client_ through the captured this is a use after
\* free: the request may still go out through what the freed memory holds,
\* or the task may fault.
TaskRuns(task) ==
    IF "this" \notin task.captures
    THEN {[task EXCEPT !.state = "sent", !.sends = @ + 1]}
    ELSE IF route.alive
    THEN {[task EXCEPT !.state = "sent", !.sends = @ + 1,
                       !.thisAtRun = "alive"]}
    ELSE {[task EXCEPT !.state = "sent", !.sends = @ + 1,
                       !.thisAtRun = "destroyed"],
          [task EXCEPT !.state = "faulted", !.thisAtRun = "destroyed"]}

\* The fiber manager runs the write task up to its baton.wait().
TaskSend(i) ==
    /\ tasks[i].state = "queued"
    /\ \E task \in TaskRuns(tasks[i]) : tasks' = [tasks EXCEPT ![i] = task]
    /\ UNCHANGED <<route, fiber, cache, hist>>

\* Faulty variant: a write that was not stored is sent again.
TaskAfterReplyRetries(task, outcome) ==
    IF outcome = "stored"
    THEN [task EXCEPT !.state = "done", !.outcome = outcome]
    ELSE [task EXCEPT !.state = "queued", !.outcome = outcome]

\* [&baton](const McSetRequest&, McSetReply&&) { baton.post(); }: the
\* reply is dropped and the task ends.
TaskAfterReply(task, outcome) ==
    [task EXCEPT !.state = "done", !.outcome = outcome]

\* The server handles the write and its reply posts the task's baton.
TaskReply(i, outcome) ==
    /\ tasks[i].state = "sent"
    /\ outcome \in WriteOutcomes(tasks[i].req)
    /\ cache' = CacheAfterWrite(tasks[i].req, outcome)
    /\ tasks' = [tasks EXCEPT ![i] = TaskAfterReply(@, outcome)]
    /\ UNCHANGED <<route, fiber, hist>>

WriteResults == {"stored", "rejected", "error"}
AllCacheReplies ==
    [result : {"hit", "miss", "other"},
     value : {None} \cup {Some(p) : p \in Payloads \cup ForeignPayloads},
     leaseToken : 0 .. (NumCalls + 2)]

Next ==
    \/ \E c \in Calls, req \in Requests : RouteBegin(c, req)
    \/ \E c \in Calls, r \in AllCacheReplies : GetReply(c, r)
    \/ \E c \in Calls, r \in AllCacheReplies : LeaseGetReply(c, r)
    \/ \E c \in Calls : SleepDone(c)
    \/ \E c \in Calls, reply \in Replies : ChildReturn(c, reply)
    \/ \E i \in DOMAIN tasks : TaskSend(i)
    \/ \E i \in DOMAIN tasks, o \in WriteResults : TaskReply(i, o)

Spec == Init /\ [][Next]_vars

(***************************************************************************)
(* The lease read alone: one route() call, with leases on, against a cache  *)
(* whose leases are held by other hosts, over lease settings that include   *)
(* zero, negative, uncapped (initial > max) and near-overflow waits.        *)
(***************************************************************************)
MaxBackoffRetries == 3
BackoffInitialWaits == {-1, 0, 2, 3, HalfInt32}
BackoffMaxWaits == {1, 8, MaxInt32}

BackoffConfigs ==
    [child : {"child"}, router : {"router"}, client : {"client"},
     keyPrefix : {<<"p", ":">>}, keySplitSize : {1}, hostid : HostIds,
     ttl : Ttls,
     leaseSettings : [enableLeases : {TRUE},
                      initialWaitMs : BackoffInitialWaits,
                      maxWaitMs : BackoffMaxWaits,
                      numRetries : 0 .. MaxBackoffRetries]]

\* Another host holds the lease of every key.
LeasesHeldElsewhere ==
    [store |-> [k \in AllKeys |-> None], lease |-> [k \in AllKeys |-> 2],
     minted |-> 1]

InitBackoff ==
    /\ route \in {Construct(c) : c \in BackoffConfigs}
    /\ fiber = [c \in Calls |-> IdleFiber]
    /\ tasks = << >>
    /\ cache = LeasesHeldElsewhere
    /\ hist = [c \in Calls |-> EmptyHist]

NextBackoff ==
    \/ \E req \in Requests : RouteBegin(1, req)
    \/ \E r \in AllCacheReplies : LeaseGetReply(1, r)
    \/ SleepDone(1)
    \/ \E reply \in Replies : ChildReturn(1, reply)
    \/ \E i \in DOMAIN tasks : TaskSend(i)
    \/ \E i \in DOMAIN tasks, o \in WriteResults : TaskReply(i, o)

SpecBackoff == InitBackoff /\ [][NextBackoff]_vars

(***************************************************************************)
(* Leases off: the plain GET / SET path alone, with the fiber manager       *)
(* running every task it was handed (a queued write task is eventually      *)
(* run; whether the server ever answers is left open).                      *)
(***************************************************************************)
InitPlain ==
    /\ Init
    /\ ~route.leaseSettings.enableLeases

NextPlain ==
    \/ \E c \in Calls, req \in Requests : RouteBegin(c, req)
    \/ \E c \in Calls, r \in AllCacheReplies : GetReply(c, r)
    \/ \E c \in Calls, reply \in Replies : ChildReturn(c, reply)
    \/ \E i \in DOMAIN tasks : TaskSend(i)
    \/ \E i \in DOMAIN tasks, o \in WriteResults : TaskReply(i, o)

SpecPlain ==
    /\ InitPlain
    /\ [][NextPlain]_vars
    /\ \A c \in Calls :
          WF_vars(\E i \in DOMAIN tasks : tasks[i].call = c /\ TaskSend(i))

(***************************************************************************)
(* What the properties below speak about.                                   *)
(***************************************************************************)
Last(seq) == seq[Len(seq)]
TasksOf(c) == {i \in DOMAIN tasks : tasks[i].call = c}
HitWithPayload(cacheReply) ==
    cacheReply.result = "hit" /\ cacheReply.value # None
HotMiss(cacheReply) ==
    cacheReply.result = "miss" /\ cacheReply.leaseToken = 1
Started(c) == fiber[c].pc # "idle"
Returned(c) == fiber[c].pc = "done"
\* What the helper says of the request of call c, once the call has one.
Candidate(c) == Started(c) /\ HelperCacheCandidate(fiber[c].req)
NonCandidate(c) == Started(c) /\ ~HelperCacheCandidate(fiber[c].req)
\* The read path of call c is over.
ReadOver(c) == fiber[c].pc \in {"child_wait", "done"}
\* The read path of call c is over and produced no cached reply.
NoCachedReply(c) ==
    /\ ReadOver(c)
    /\ \/ hist[c].got = << >>
       \/ ~HitWithPayload(Last(hist[c].got))

(***************************************************************************)
(* C1: when helper.cacheCandidate(req) is false, the call issues no cache   *)
(* operation at all (no GET, LEASE_GET, SET or LEASE_SET, during the call   *)
(* or after it), invokes the child exactly once, and returns the child's    *)
(* reply.                                                                   *)
(***************************************************************************)
C1_NonCandidateBypassesCache ==
    \A c \in Calls :
        NonCandidate(c) =>
            /\ hist[c].reads = << >>
            /\ hist[c].got = << >>
            /\ TasksOf(c) = {}
            /\ hist[c].childCalls = 1
            /\ Returned(c) => /\ hist[c].childReply \in Replies
                              /\ hist[c].returned = hist[c].childReply

\* A non-candidate call has returned while another call's write is stored.
C1_Witness ==
    \E c \in Calls :
        /\ Returned(c)
        /\ NonCandidate(c)
        /\ \E k \in AllKeys : cache.store[k] # None

(***************************************************************************)
(* C2: a cache hit causes zero calls to child.route.  Whenever a read       *)
(* (GET, or LEASE_GET on any attempt) is answered by a hit with a payload,  *)
(* route() returns the reply deserialized from that payload, the child is   *)
(* never invoked and no cache write is dispatched for the call.             *)
(***************************************************************************)
C2_HitSkipsChild ==
    \A c \in Calls :
        \A i \in DOMAIN hist[c].got :
            HitWithPayload(hist[c].got[i]) =>
                /\ i = Len(hist[c].got)
                /\ Len(hist[c].reads) = i
                /\ Returned(c)
                /\ hist[c].returned = Deserialize(hist[c].got[i].value.some)
                /\ hist[c].childCalls = 0
                /\ hist[c].childReply = None
                /\ TasksOf(c) = {}

\* A LEASE_GET hits on a retry, after a hot miss.
C2_Witness ==
    \E c \in Calls :
        /\ Len(hist[c].got) >= 2
        /\ HotMiss(hist[c].got[1])
        /\ HitWithPayload(Last(hist[c].got))
        /\ Returned(c)

(***************************************************************************)
(* C3: a cache miss causes exactly one call to child.route.  For a          *)
(* candidate request whose read path ends with no cached reply (miss, read  *)
(* error, retries exhausted), the child is invoked exactly once and the     *)
(* reply route() returns is the reply the child returned.                   *)
(***************************************************************************)
C3_MissCallsChildOnce ==
    \A c \in Calls :
        (Candidate(c) /\ NoCachedReply(c)) =>
            /\ hist[c].childCalls = 1
            /\ Returned(c) => /\ hist[c].childReply \in Replies
                              /\ hist[c].returned = hist[c].childReply

\* A candidate call has returned after its read ended in an error.
C3_Witness ==
    \E c \in Calls :
        /\ Candidate(c)
        /\ Returned(c)
        /\ hist[c].got # << >>
        /\ Last(hist[c].got).result = "other"
        /\ hist[c].returned = [result |-> "OK", message |-> "hi"]

(***************************************************************************)
(* C4: under leases a hot-miss response never causes a write.  As claimed:  *)
(* when the lease read runs out of retries with every LEASE_GET answered    *)
(* by the hot-miss token, route() forwards to the child and then issues no  *)
(* cache write, neither LEASE_SET nor SET.                                  *)
(***************************************************************************)
HotMissExhausted(c) ==
    /\ route.leaseSettings.enableLeases
    /\ ReadOver(c)
    /\ hist[c].got # << >>
    /\ \A i \in DOMAIN hist[c].got : HotMiss(hist[c].got[i])

C4_Original_NoWriteAfterHotMiss ==
    \A c \in Calls : HotMissExhausted(c) => TasksOf(c) = {}

(***************************************************************************)
(* C4 as amended: after the retries are exhausted on hot misses the call    *)
(* holds no lease token and never issues a LEASE_SET; once the child has    *)
(* returned it dispatches exactly one plain SET of the child's reply.       *)
(***************************************************************************)
C4_HotMissNeverLeaseSet ==
    \A c \in Calls :
        HotMissExhausted(c) =>
            /\ fiber[c].leaseToken = 0
            /\ hist[c].childCalls = 1
            /\ \A i \in TasksOf(c) : tasks[i].req.op = "SET"
            /\ Returned(c) =>
                  /\ Cardinality(TasksOf(c)) = 1
                  /\ \A i \in TasksOf(c) :
                        tasks[i].req.value = Serialize(hist[c].childReply)

\* A call has returned after hot misses on every one of several attempts.
C4_Witness ==
    \E c \in Calls :
        /\ HotMissExhausted(c)
        /\ Returned(c)
        /\ Len(hist[c].got) >= 2
        /\ Len(hist[c].got) = route.leaseSettings.numRetries + 1

(***************************************************************************)
(* C5: within one route() call on a candidate request, every cache request  *)
(* issued (each GET or LEASE_GET attempt, and the SET or LEASE_SET that     *)
(* follows) carries the same key, and that key is keyPrefix followed by     *)
(* helper.buildKey(req) followed by keySuffix.                              *)
(***************************************************************************)
ExpectedKey(c) ==
    route.keyPrefix \o HelperBuildKey(fiber[c].req) \o route.keySuffix

C5_OneKeyPerCall ==
    \A c \in Calls :
        Candidate(c) =>
            /\ \A i \in DOMAIN hist[c].reads :
                  hist[c].reads[i].key = ExpectedKey(c)
            /\ \A i \in TasksOf(c) : tasks[i].req.key = ExpectedKey(c)

\* A call with a prefix and a split suffix has read twice and written.
C5_Witness ==
    \E c \in Calls :
        /\ Len(hist[c].reads) >= 2
        /\ TasksOf(c) # {}
        /\ route.keyPrefix # << >>
        /\ route.keySuffix # << >>
        /\ \A i \in TasksOf(c) : tasks[i].state = "done"

(***************************************************************************)
(* C6: the back-off of the lease read.  As claimed: no sleep precedes the   *)
(* first LEASE_GET, the sleep before the 2nd LEASE_GET is initialWaitMs,    *)
(* each later sleep is min(2 * previous sleep, maxWaitMs), and hence, when  *)
(* initialWaitMs <= maxWaitMs, the sleeps are non-decreasing and none       *)
(* exceeds maxWaitMs.                                                       *)
(***************************************************************************)
\* One sleep between consecutive LEASE_GETs and none before the first.
SleepsBetweenReads(c) ==
    Len(hist[c].sleeps) =
        IF fiber[c].pc = "sleep" THEN Len(hist[c].reads)
        ELSE IF hist[c].reads = << >> THEN 0
        ELSE Len(hist[c].reads) - 1

\* 2 * previous fits an int32_t.
DoubleFits(previous) == previous < HalfInt32 /\ previous >= -HalfInt32

\* sleep = min(2 * previous, maxWaitMs) over the integers, for int32_t
\* values of sleep, previous and maxWaitMs.
IsMinOfDouble(sleep, previous, maxWaitMs) ==
    IF previous >= HalfInt32 THEN sleep = maxWaitMs
    ELSE IF previous < -HalfInt32 THEN FALSE
    ELSE sleep = Min(2 * previous, maxWaitMs)

NonDecreasingAndCapped(sleeps, maxWaitMs) ==
    /\ \A i \in DOMAIN sleeps : sleeps[i] <= maxWaitMs
    /\ \A i \in 1 .. (Len(sleeps) - 1) : sleeps[i] <= sleeps[i + 1]

C6_Original_Backoff ==
    \A c \in Calls :
        LET ls == route.leaseSettings
            sleeps == hist[c].sleeps
        IN  /\ SleepsBetweenReads(c)
            /\ sleeps # << >> => sleeps[1] = ls.initialWaitMs
            /\ \A i \in 1 .. (Len(sleeps) - 1) :
                  IsMinOfDouble(sleeps[i + 1], sleeps[i], ls.maxWaitMs)
            /\ ls.initialWaitMs <= ls.maxWaitMs =>
                  NonDecreasingAndCapped(sleeps, ls.maxWaitMs)

(***************************************************************************)
(* C6 as amended: no sleep precedes the first LEASE_GET, the sleep before   *)
(* the 2nd LEASE_GET is initialWaitMs, and each later sleep is              *)
(* min(2 * previous sleep, maxWaitMs) whenever 2 * previous sleep fits an   *)
(* int32_t; hence, when 0 <= initialWaitMs <= maxWaitMs < 2^30, the sleeps  *)
(* are non-decreasing and none exceeds maxWaitMs.                           *)
(***************************************************************************)
C6_Backoff ==
    \A c \in Calls :
        LET ls == route.leaseSettings
            sleeps == hist[c].sleeps
        IN  /\ SleepsBetweenReads(c)
            /\ sleeps # << >> => sleeps[1] = ls.initialWaitMs
            /\ \A i \in 1 .. (Len(sleeps) - 1) :
                  DoubleFits(sleeps[i]) =>
                      IsMinOfDouble(sleeps[i + 1], sleeps[i], ls.maxWaitMs)
            /\ (/\ 0 <= ls.initialWaitMs
                /\ ls.initialWaitMs <= ls.maxWaitMs
                /\ ls.maxWaitMs < HalfInt32) =>
                  NonDecreasingAndCapped(sleeps, ls.maxWaitMs)

\* initial = 2, max = 8, retries = 3: sleeps of 2, 4 and 8 before the 2nd,
\* 3rd and 4th LEASE_GET.
C6_Witness ==
    \E c \in Calls :
        /\ route.leaseSettings.initialWaitMs = 2
        /\ route.leaseSettings.maxWaitMs = 8
        /\ route.leaseSettings.numRetries = 3
        /\ hist[c].sleeps = <<2, 4, 8>>
        /\ Len(hist[c].reads) = 4

(***************************************************************************)
(* C7: the retries of the lease read are bounded.  As claimed: with leases  *)
(* enabled, one route() call issues at most numRetries + 1 LEASE_GET        *)
(* requests, and it issues a further LEASE_GET only if the previous one     *)
(* was answered by a miss carrying the hot-miss token 1.                    *)
(***************************************************************************)
\* Every read of call c is a LEASE_GET, and each one after the first
\* follows a hot miss.
RetriesOnlyAfterHotMiss(c) ==
    /\ \A i \in DOMAIN hist[c].reads : hist[c].reads[i].op = "LEASE_GET"
    /\ \A i \in 2 .. Len(hist[c].reads) :
          /\ i - 1 \in DOMAIN hist[c].got
          /\ HotMiss(hist[c].got[i - 1])

C9_DetachedBestEffortWrite ==
    /\ \A c \in Calls : Cardinality(TasksOf(c)) <= 1
    /\ \A i \in DOMAIN tasks :
          LET c == tasks[i].call
          IN  /\ Returned(c)
              /\ hist[c].childReply \in Replies
              /\ hist[c].returned = hist[c].childReply
              /\ tasks[i].sends <= 1
              /\ tasks[i].sends = IF tasks[i].state = "queued" THEN 0 ELSE 1

\* A LEASE_SET was rejected for a stale token after its call had returned
\* the child's reply.
C9_Witness ==
    \E i \in DOMAIN tasks :
        /\ tasks[i].req.op = "LEASE_SET"
        /\ tasks[i].outcome = "rejected"
        /\ Returned(tasks[i].call)
        /\ hist[tasks[i].call].returned = [result |-> "OK", message |-> "hi"]

(***************************************************************************)
(* C10: the child fails for a candidate request whose read missed.  As      *)
(* claimed: the failure reply is returned to the caller unchanged and is    *)
(* not cached, no SET or LEASE_SET being issued for the call.               *)
(***************************************************************************)
ChildFailed(c) ==
    /\ Candidate(c)
    /\ NoCachedReply(c)
    /\ Returned(c)
    /\ IsFailure(hist[c].childReply)

C10_Original_FailureNotCached ==
    \A c \in Calls :
        ChildFailed(c) =>
            /\ hist[c].returned = hist[c].childReply
            /\ TasksOf(c) = {}

(***************************************************************************)
(* C10 as amended: the failure reply is returned to the caller unchanged,   *)
(* and it is written to the cache like any other reply of the child:        *)
(* exactly one SET or LEASE_SET carrying its serialization is dispatched.   *)
(***************************************************************************)
C10_FailureReturnedAndWritten ==
    \A c \in Calls :
        ChildFailed(c) =>
            /\ hist[c].returned = hist[c].childReply
            /\ Cardinality(TasksOf(c)) = 1
            /\ \A i \in TasksOf(c) :
                  /\ tasks[i].req.op \in {"SET", "LEASE_SET"}
                  /\ tasks[i].req.value = Serialize(hist[c].childReply)

\* The failure reply of a call's child is what the cache now stores.
C10_Witness ==
    \E c \in Calls :
        /\ ChildFailed(c)
        /\ cache.store[fiber[c].key] = Some(Serialize(hist[c].childReply))

(***************************************************************************)
(* C8: for a candidate request whose plain GET misses (leases off),         *)
(* exactly one SET is eventually dispatched for the call: on the request's  *)
(* key, with exptime equal to the configured ttl and value equal to the     *)
(* serialization of the reply the child returned for this call; and no      *)
(* stored value is ever anything but the serialization of a reply produced  *)
(* by the child.  The SET is handed to the fiber manager when the child     *)
(* has returned, and is sent once the fiber manager runs the task.          *)
(***************************************************************************)
PlainMiss(c) ==
    /\ ~route.leaseSettings.enableLeases
    /\ Candidate(c)
    /\ hist[c].got # << >>
    /\ Last(hist[c].got).result = "miss"

\* The SET the claim expects of call c.
ExpectedSet(c) ==
    [op |-> "SET", key |-> ExpectedKey(c), exptime |-> route.ttl,
     value |-> Serialize(hist[c].childReply), leaseToken |-> 0]

\* Nothing is written before the child has returned, and one SET after.
OneSetAfterPlainMiss ==
    \A c \in Calls :
        PlainMiss(c) =>
            IF Returned(c)
            THEN /\ Cardinality(TasksOf(c)) = 1
                 /\ \A i \in TasksOf(c) : /\ tasks[i].req = ExpectedSet(c)
                                          /\ tasks[i].sends <= 1
            ELSE TasksOf(c) = {}

StoredValuesAreChildReplies ==
    \A k \in AllKeys :
        cache.store[k] # None =>
            \E c \in Calls :
                /\ hist[c].childReply \in Replies
                /\ cache.store[k] = Some(Serialize(hist[c].childReply))

\* The SET of call c has been sent to the cache.
SetSent(c) ==
    \E i \in TasksOf(c) : tasks[i].req = ExpectedSet(c) /\ tasks[i].sends = 1

C8_PlainMissSetsOnce ==
    /\ [](OneSetAfterPlainMiss /\ StoredValuesAreChildReplies)
    /\ \A c \in Calls : (PlainMiss(c) /\ Returned(c)) ~> SetSent(c)

\* The SET of a call whose GET missed was stored: the cache holds the
\* serialization of the reply its child returned.
C8_Witness ==
    \E c \in Calls :
        /\ PlainMiss(c)
        /\ Returned(c)
        /\ SetSent(c)
        /\ route.ttl = 10
        /\ cache.store[ExpectedKey(c)] = Some(Serialize(hist[c].childReply))

(***************************************************************************)
(* The factory: createCarbonLookasideRoute builds the child, asks for the   *)
(* cache router of the flavor and for a client of that router, and wraps    *)
(* the child in a CarbonLookasideRoute; without a router or a client it     *)
(* hands back the child itself.                                             *)
(***************************************************************************)
\* What the factory meets: createCarbonLookasideRouter returns a router or
\* nullptr, and router->createClient returns a client or throws
\* std::runtime_error.
FactoryEnvs == [routerAvailable : BOOLEAN, clientCreated : BOOLEAN]

\* The json the factory is given, with the host id of the process.
FactoryJsons ==
    [keyPrefix : {<<"p", ":">>}, keySplitSize : {1, 4}, hostid : HostIds,
     ttl : Ttls,
     leaseSettings :
        {[enableLeases |-> TRUE, initialWaitMs |-> 2, maxWaitMs |-> 8,
          numRetries |-> 1],
         [enableLeases |-> FALSE, initialWaitMs |-> DefaultInitialWaitMs,
          maxWaitMs |-> DefaultMaxWaitMs,
          numRetries |-> DefaultNumRetries]}]

\* return std::move(child);
RawChild == [kind |-> "child"]

\* makeRouteHandleWithInfo<RouterInfo, CarbonLookasideRoute, ...>(...)
MakeRouteHandle(json, router, client) ==
    [kind |-> "lookaside"] @@
    Construct([child |-> "child", router |-> router, client |-> client,
               keyPrefix |-> json.keyPrefix,
               keySplitSize |-> json.keySplitSize, hostid |-> json.hostid,
               ttl |-> json.ttl, leaseSettings |-> json.leaseSettings])

\* Faulty variant: the child is wrapped whenever there is a router, with a
\* null client when none could be created.
CreateWrapsWithoutClient(json, env) ==
    IF ~env.routerAvailable THEN RawChild
    ELSE MakeRouteHandle(json, "router",
                         IF env.clientCreated THEN "client" ELSE "nullptr")

\* createCarbonLookasideRoute, from createCarbonLookasideRouter on.
CreateCarbonLookasideRoute(json, env) ==
    LET router == IF env.routerAvailable THEN "router" ELSE "nullptr"
    IN  IF router = "nullptr" THEN RawChild
        ELSE IF ~env.clientCreated THEN RawChild
        ELSE MakeRouteHandle(json, router, "client")

\* What a traverser is shown at the child.
ChildTraversal == <<"child">>
\* traverse(req, t): t(*child_, req); the wrapper shows its child and
\* nothing of its own.
Traverse(handle) ==
    IF handle.kind = "lookaside" THEN <<handle.child>> ELSE ChildTraversal

\* The state after the factory has run; the cache side also records what
\* the factory met.
InitFactory ==
    /\ \E json \in FactoryJsons, env \in FactoryEnvs :
          /\ route = CreateCarbonLookasideRoute(json, env)
          /\ cache = EmptyCache @@ [factory |-> env]
    /\ fiber = [c \in Calls |-> IdleFiber]
    /\ tasks = << >>
    /\ hist = [c \in Calls |-> EmptyHist]

\* route(req) on the bare child: the request goes to the child's own
\* route().
BareChildRoute(c, req) ==
    /\ route.kind = "child"
    /\ fiber[c].pc = "idle"
    /\ fiber' = [fiber EXCEPT ![c] =
                    [IdleFiber EXCEPT !.req = req, !.pc = "bare_child_wait"]]
    /\ hist' = [hist EXCEPT ![c].childCalls = @ + 1]
    /\ UNCHANGED <<route, tasks, cache>>

BareChildReturn(c, reply) ==
    /\ fiber[c].pc = "bare_child_wait"
    /\ fiber' = [fiber EXCEPT ![c] = [@ EXCEPT !.reply = reply, !.pc = "done"]]
    /\ hist' = [hist EXCEPT ![c] =
                    [@ EXCEPT !.childReply = reply, !.returned = reply]]
    /\ UNCHANGED <<route, tasks, cache>>

\* route(req) on the wrapper.
LookasideRoute(c, req) ==
    /\ route.kind = "lookaside"
    /\ RouteBegin(c, req)

NextFactory ==
    \/ \E c \in Calls, req \in Requests : BareChildRoute(c, req)
    \/ \E c \in Calls, reply \in Replies : BareChildReturn(c, reply)
    \/ \E c \in Calls, req \in Requests : LookasideRoute(c, req)
    \/ \E c \in Calls, r \in AllCacheReplies : GetReply(c, r)
    \/ \E c \in Calls, r \in AllCacheReplies : LeaseGetReply(c, r)
    \/ \E c \in Calls : SleepDone(c)
    \/ \E c \in Calls, reply \in Replies : ChildReturn(c, reply)
    \/ \E i \in DOMAIN tasks : TaskSend(i)
    \/ \E i \in DOMAIN tasks, o \in WriteResults : TaskReply(i, o)

SpecFactory == InitFactory /\ [][NextFactory]_vars

(***************************************************************************)
(* C11: when the factory cannot obtain a cache router or cannot create a    *)
(* cache client, what it returns is the child itself, so a request routed   *)
(* through it gets the child's reply, is traversed as the child is, and     *)
(* causes no cache operation; the choice is made at construction only (the  *)
(* handle never changes afterwards), and a lookaside route that was         *)
(* constructed has a non-null router and a non-null client.                 *)
(***************************************************************************)
FactoryFellBack ==
    ~cache.factory.routerAvailable \/ ~cache.factory.clientCreated

FallbackIsBareChild ==
    /\ FactoryFellBack =>
          /\ route = RawChild
          /\ Traverse(route) = ChildTraversal
          /\ tasks = << >>
          /\ \A k \in AllKeys : cache.store[k] = None /\ cache.lease[k] = 0
          /\ \A c \in Calls :
                /\ hist[c].reads = << >>
                /\ hist[c].got = << >>
                /\ Started(c) => hist[c].childCalls = 1
                /\ Returned(c) => /\ hist[c].childReply \in Replies
                                  /\ hist[c].returned = hist[c].childReply
    /\ route.kind = "lookaside" =>
          /\ ~FactoryFellBack
          /\ route.router # "nullptr"
          /\ route.client # "nullptr"

C11_FallbackToRawChild ==
    /\ []FallbackIsBareChild
    /\ [][route' = route]_vars

\* The router was there but no client could be created, and a request that
\* the helper would cache has been answered by the child.
C11_Witness ==
    /\ cache.factory.routerAvailable
    /\ ~cache.factory.clientCreated
    /\ \E c \in Calls :
          /\ Returned(c)
          /\ fiber[c].req.shouldCache
          /\ hist[c].returned = [result |-> "OK", message |-> "hi"]

(***************************************************************************)
(* The key suffix over a wider range of keySplitSize (a size_t: 0 and 1     *)
(* disable splitting) and of host ids (a uint32_t), on the plain GET / SET  *)
(* path of one route() call.  The route record also keeps the constructor's *)
(* keySplitSize and the host id it was built with, for the properties.      *)
(***************************************************************************)
MaxKeySplitSize == 12
SuffixKeySplitSizes == 0 .. MaxKeySplitSize
SuffixHostIds == {0, 6, 11, MaxInt32}

SuffixConfigs ==
    [child : {"child"}, router : {"router"}, client : {"client"},
     keyPrefix : {<<"p", ":">>}, keySplitSize : SuffixKeySplitSizes,
     hostid : SuffixHostIds, ttl : Ttls,
     leaseSettings :
        {[enableLeases |-> FALSE, initialWaitMs |-> DefaultInitialWaitMs,
          maxWaitMs |-> DefaultMaxWaitMs,
          numRetries |-> DefaultNumRetries]}]

SuffixKeys ==
    {c.keyPrefix \o k \o BuildKeySuffix(c.keySplitSize, c.hostid) :
        c \in SuffixConfigs, k \in LogicalKeys}

InitSuffix ==
    /\ \E c \in SuffixConfigs :
          route = Construct(c) @@
                  [args |-> [keySplitSize |-> c.keySplitSize,
                             hostid |-> c.hostid]]
    /\ fiber = [c \in Calls |-> IdleFiber]
    /\ tasks = << >>
    /\ cache = [store |-> [k \in SuffixKeys |-> None],
                lease |-> [k \in SuffixKeys |-> 0], minted |-> 0]
    /\ hist = [c \in Calls |-> EmptyHist]

NextSuffix ==
    \/ \E req \in Requests : RouteBegin(1, req)
    \/ \E r \in AllCacheReplies : GetReply(1, r)
    \/ \E reply \in Replies : ChildReturn(1, reply)
    \/ \E i \in DOMAIN tasks : TaskSend(i)
    \/ \E i \in DOMAIN tasks, o \in WriteResults : TaskReply(i, o)

SpecSuffix == InitSuffix /\ [][NextSuffix]_vars

\* The number a string of decimal digits denotes.
DigitValue(ch) == CHOOSE d \in 0 .. 9 : DigitChars[d + 1] = ch
IsDigit(ch) == \E d \in 0 .. 9 : DigitChars[d + 1] = ch
RECURSIVE ParseDecimal(_)
ParseDecimal(chars) ==
    IF chars = << >> THEN 0
    ELSE 10 * ParseDecimal(SubSeq(chars, 1, Len(chars) - 1))
           + DigitValue(chars[Len(chars)])

\* suffix is ":ks" followed by the decimal representation of d.
IsSplitSuffix(suffix, d) ==
    /\ Len(suffix) >= 4
    /\ SubSeq(suffix, 1, 3) = <<":", "k", "s">>
    /\ LET digits == SubSeq(suffix, 4, Len(suffix))
       IN  /\ \A i \in DOMAIN digits : IsDigit(digits[i])
           /\ Len(digits) > 1 => digits[1] # "0"
           /\ ParseDecimal(digits) = d

EndsWith(key, suffix) ==
    /\ Len(key) >= Len(suffix)
    /\ SubSeq(key, Len(key) - Len(suffix) + 1, Len(key)) = suffix

(***************************************************************************)
(* C12: the key suffix is fixed at construction: empty when keySplitSize    *)
(* <= 1, and otherwise ":ks" followed by the decimal value of hostId mod    *)
(* keySplitSize, a number d with 0 <= d < keySplitSize; it never changes    *)
(* afterwards, so every cache request of the instance ends with it.         *)
(***************************************************************************)
SuffixAsBuilt ==
    LET keySplitSize == route.args.keySplitSize
        d == route.args.hostid % keySplitSize
    IN  /\ keySplitSize <= 1 => route.keySuffix = << >>
        /\ keySplitSize > 1 =>
              /\ d >= 0
              /\ d < keySplitSize
              /\ IsSplitSuffix(route.keySuffix, d)
        /\ \A c \in Calls :
              /\ \A i \in DOMAIN hist[c].reads :
                    EndsWith(hist[c].reads[i].key, route.keySuffix)
              /\ \A i \in TasksOf(c) :
                    EndsWith(tasks[i].req.key, route.keySuffix)

C12_KeySuffixFixed ==
    /\ []SuffixAsBuilt
    /\ [][route'.keySuffix = route.keySuffix]_vars

\* keySplitSize = 12 on host 11: the suffix is ":ks11", and a call has read
\* and written under it.
C12_Witness ==
    /\ route.args.keySplitSize = 12
    /\ route.args.hostid = 11
    /\ route.keySuffix = <<":", "k", "s", "1", "1">>
    /\ \E c \in Calls :
          /\ hist[c].reads # << >>
          /\ \E i \in TasksOf(c) : tasks[i].state = "done"

(***************************************************************************)
(* C13: round trip.  A reply R that the child produced and one route() call *)
(* wrote to the cache comes back equal to R, in result and in message, from *)
(* a later route() call that hits on the stored value:                      *)
(* deserialize(serialize(R)) = R.                                           *)
(***************************************************************************)
\* Call c has returned from a hit with a payload.
ReturnedFromHit(c) ==
    /\ Returned(c)
    /\ hist[c].got # << >>
    /\ HitWithPayload(Last(hist[c].got))

\* Write task i stored what call c later hit on.
StoredWhatWasHit(i, c) ==
    /\ tasks[i].outcome = "stored"
    /\ tasks[i].req.key = fiber[c].key
    /\ Some(tasks[i].req.value) = Last(hist[c].got).value

C13_RoundTrip ==
    /\ \A r \in Replies :
          /\ Deserialize(Serialize(r)).result = r.result
          /\ Deserialize(Serialize(r)).message = r.message
    /\ \A c \in Calls :
          ReturnedFromHit(c) =>
             /\ \E i \in DOMAIN tasks : StoredWhatWasHit(i, c)
             /\ \A i \in DOMAIN tasks :
                   StoredWhatWasHit(i, c) =>
                      /\ tasks[i].call # c
                      /\ tasks[i].req.value =
                            Serialize(hist[tasks[i].call].childReply)
                      /\ hist[c].returned = hist[tasks[i].call].childReply

\* One call stored the child's reply OK / "hi" and the other call returned
\* it from a hit.
C13_Witness ==
    \E c \in Calls :
        /\ ReturnedFromHit(c)
        /\ hist[c].returned = [result |-> "OK", message |-> "hi"]
        /\ \E i \in DOMAIN tasks : StoredWhatWasHit(i, c)

(***************************************************************************)
(* C14: the write variant follows the lease state of the same route() call. *)
(* LEASE_SET(key, value, ttl, leaseToken) is issued exactly when leases are *)
(* enabled and the read path left a nonzero leaseToken; in every other      *)
(* writing case (leases disabled, or enabled with leaseToken = 0) a plain   *)
(* SET(key, value, ttl) is issued; with leases disabled no LEASE_GET and no *)
(* LEASE_SET is ever issued.                                                *)
(***************************************************************************)
C14_WriteVariantByLeaseState ==
    /\ \A i \in DOMAIN tasks :
          LET c == tasks[i].call
              req == tasks[i].req
          IN  /\ req.key = fiber[c].key
              /\ req.value = Serialize(hist[c].childReply)
              /\ req.exptime = route.ttl
              /\ req.op \in {"SET", "LEASE_SET"}
              /\ req.op = "LEASE_SET" <=>
                    (route.leaseSettings.enableLeases
                       /\ fiber[c].leaseToken # 0)
              /\ req.op = "LEASE_SET" => req.leaseToken = fiber[c].leaseToken
    /\ ~route.leaseSettings.enableLeases =>
          \A c \in Calls :
             /\ fiber[c].leaseToken = 0
             /\ \A i \in DOMAIN hist[c].reads : hist[c].reads[i].op = "GET"
    /\ route.leaseSettings.enableLeases =>
          \A c \in Calls :
             \A i \in DOMAIN hist[c].reads : hist[c].reads[i].op = "LEASE_GET"

\* With leases enabled, one call wrote with LEASE_SET under its token and
\* another, left without a token, wrote with a plain SET.
C14_Witness ==
    /\ route.leaseSettings.enableLeases
    /\ \E i, j \in DOMAIN tasks :
          /\ tasks[i].req.op = "LEASE_SET"
          /\ tasks[i].req.leaseToken >= 2
          /\ tasks[j].req.op = "SET"
          /\ hist[tasks[j].call].reads # << >>

(***************************************************************************)
(* C15: the steps of one route() call are strictly sequential.  Every read  *)
(* request of the call has received its reply (or the retry loop has given  *)
(* up) before child.route is invoked, the write is dispatched only after    *)
(* child.route has returned its reply, and no read request of the call is   *)
(* issued after the child has been invoked.                                 *)
(***************************************************************************)
ChildInvoked(c) == hist[c].childCalls >= 1

SequentialSteps ==
    \A c \in Calls :
        /\ Len(hist[c].got) <= Len(hist[c].reads)
        /\ Len(hist[c].reads) - Len(hist[c].got) <= 1
        /\ ChildInvoked(c) =>
              /\ Len(hist[c].got) = Len(hist[c].reads)
              /\ fiber[c].pc \in {"child_wait", "done"}
        /\ TasksOf(c) # {} =>
              /\ ChildInvoked(c)
              /\ hist[c].childReply \in Replies
              /\ Returned(c)

NoReadAfterChild ==
    \A c \in Calls :
        ChildInvoked(c) =>
            /\ hist'[c].reads = hist[c].reads
            /\ hist'[c].got = hist[c].got
            /\ hist'[c].childCalls = hist[c].childCalls

C15_StrictlySequential ==
    /\ []SequentialSteps
    /\ [][NoReadAfterChild]_vars

\* A call went through two LEASE_GETs, both answered, then the child, then
\* the dispatch of its write.
C15_Witness ==
    \E c \in Calls :
        /\ Len(hist[c].reads) = 2
        /\ Len(hist[c].got) = 2
        /\ ChildInvoked(c)
        /\ hist[c].childReply \in Replies
        /\ TasksOf(c) # {}

(***************************************************************************)
(* C16: a cache read that ends in neither a hit with a payload nor a miss   *)
(* (transport error, unavailable, hit without payload) counts as no cached  *)
(* reply with no lease held: the read is not retried, leaseToken is 0, the  *)
(* child is invoked, and the write that follows is a plain SET even when    *)
(* leases are enabled.                                                      *)
(***************************************************************************)
ReadFailure(cacheReply) ==
    /\ ~HitWithPayload(cacheReply)
    /\ cacheReply.result # "miss"

C16_ReadFailureIsNoCachedReply ==
    \A c \in Calls :
        \A i \in DOMAIN hist[c].got :
            ReadFailure(hist[c].got[i]) =>
                /\ i = Len(hist[c].got)
                /\ Len(hist[c].reads) = i
                /\ ReadOver(c)
                /\ fiber[c].ret = None
                /\ fiber[c].leaseToken = 0
                /\ hist[c].childCalls = 1
                /\ \A j \in TasksOf(c) : tasks[j].req.op = "SET"
                /\ Returned(c) => /\ Cardinality(TasksOf(c)) = 1
                                  /\ hist[c].returned = hist[c].childReply

\* With leases enabled, a LEASE_GET retried after a hot miss ended in an
\* error, and the call wrote the child's reply with a plain SET.
C16_Witness ==
    \E c \in Calls :
        /\ route.leaseSettings.enableLeases
        /\ Len(hist[c].got) = 2
        /\ Last(hist[c].got).result = "other"
        /\ \E j \in TasksOf(c) : tasks[j].req.op = "SET"

(***************************************************************************)
(* The life of the route instance: it is destroyed when the routing tree    *)
(* that holds it is discarded, which happens only when no route() call is   *)
(* in progress on it.  Write tasks handed to the fiber manager are not      *)
(* route() calls: they may still be queued or waiting for their reply.      *)
(***************************************************************************)
LifetimeConfigs ==
    {c \in Configs :
        /\ c.keyPrefix = <<"p", ":">>
        /\ c.keySplitSize = 1
        /\ c.leaseSettings.numRetries \in {1, DefaultNumRetries}}

InitLifetime ==
    /\ route \in {Construct(c) : c \in LifetimeConfigs}
    /\ fiber = [c \in Calls |-> IdleFiber]
    /\ tasks = << >>
    /\ cache = EmptyCache
    /\ hist = [c \in Calls |-> EmptyHist]

\* route(req) is called on an instance that exists.
RouteOnInstance(c, req) ==
    /\ route.alive
    /\ RouteBegin(c, req)

\* ~CarbonLookasideRoute, with the routing tree.
Destroy ==
    /\ route.alive
    /\ \A c \in Calls : fiber[c].pc \in {"idle", "done"}
    /\ route' = [route EXCEPT !.alive = FALSE]
    /\ UNCHANGED <<fiber, tasks, cache, hist>>

NextLifetime ==
    \/ \E c \in Calls, req \in Requests : RouteOnInstance(c, req)
    \/ \E c \in Calls, r \in AllCacheReplies : GetReply(c, r)
    \/ \E c \in Calls, r \in AllCacheReplies : LeaseGetReply(c, r)
    \/ \E c \in Calls : SleepDone(c)
    \/ \E c \in Calls, reply \in Replies : ChildReturn(c, reply)
    \/ \E i \in DOMAIN tasks : TaskSend(i)
    \/ \E i \in DOMAIN tasks, o \in WriteResults : TaskReply(i, o)
    \/ Destroy

SpecLifetime == InitLifetime /\ [][NextLifetime]_vars

(***************************************************************************)
(* C17: the detached write task captures only data it owns (the moved-in    *)
(* cache request and a shared reference to the cache client): in no         *)
(* interleaving does a pending write task access the route instance or its  *)
(* members after route() has returned and the route instance has been       *)
(* destroyed with its routing tree.                                         *)
(***************************************************************************)
C17_Original_TaskOwnsItsData ==
    \A i \in DOMAIN tasks : tasks[i].thisAtRun # "destroyed"

(***************************************************************************)
(* A cache that already holds, under one key, a value that this route did   *)
(* not write and that is not the serialization of a reply.                  *)
(***************************************************************************)
InitForeign ==
    /\ route \in {Construct(c) : c \in LifetimeConfigs}
    /\ fiber = [c \in Calls |-> IdleFiber]
    /\ tasks = << >>
    /\ \E p \in ForeignPayloads :
          cache = [EmptyCache EXCEPT !.store[<<"p", ":", "k">>] = Some(p)]
    /\ hist = [c \in Calls |-> EmptyHist]

SpecForeign == InitForeign /\ [][Next]_vars

\* The payload is the serialization of some reply.
IsSerializedReply(payload) ==
    /\ Len(payload) = 2
    /\ payload[1].id = 1
    /\ payload[2].id = 2
    /\ Serialize(Deserialize(payload)) = payload

\* The last read of call c was a hit whose payload is not a reply.
HitOnUndeserializable(c) ==
    /\ hist[c].got # << >>
    /\ HitWithPayload(Last(hist[c].got))
    /\ ~IsSerializedReply(Last(hist[c].got).value.some)

(***************************************************************************)
(* C18: when a cache read returns a hit whose payload cannot be             *)
(* deserialized into a reply, the read counts as no cached reply: route()   *)
(* does not return a reply built from that payload and goes on to the       *)
(* child instead.                                                           *)
(***************************************************************************)
C18_Original_BadPayloadGoesToChild ==
    \A c \in Calls :
        HitOnUndeserializable(c) =>
            /\ fiber[c].ret = None
            /\ hist[c].childCalls = 1
            /\ Returned(c) => hist[c].returned = hist[c].childReply

(***************************************************************************)
(* C19: across any interleaving of concurrent route() calls, every          *)
(* LEASE_SET carries a token that is neither 0 nor the hot-miss token 1 and *)
(* that is the token returned by the last LEASE_GET of the same route()     *)
(* call on the same key; a token handed to one call is never used in        *)
(* another call's write; and a hit leaves the call's leaseToken at 0.       *)
(***************************************************************************)
\* Call c was handed token by one of its LEASE_GETs.
HandedTo(token, c) ==
    \E j \in DOMAIN hist[c].got :
        /\ hist[c].got[j].result = "miss"
        /\ hist[c].got[j].leaseToken = token

C19_LeaseTokenOfOwnCall ==
    /\ \A i \in DOMAIN tasks :
          tasks[i].req.op = "LEASE_SET" =>
             LET c == tasks[i].call
                 token == tasks[i].req.leaseToken
             IN  /\ token # 0
                 /\ token # kLeaseHotMissToken
                 /\ hist[c].got # << >>
                 /\ Len(hist[c].got) = Len(hist[c].reads)
                 /\ Last(hist[c].got).result = "miss"
                 /\ Last(hist[c].got).leaseToken = token
                 /\ Last(hist[c].reads) =
                       ReadRequest("LEASE_GET", tasks[i].req.key)
                 /\ \A d \in Calls \ {c} : ~HandedTo(token, d)
    /\ \A c \in Calls :
          (hist[c].got # << >> /\ HitWithPayload(Last(hist[c].got))) =>
              fiber[c].leaseToken = 0

\* Two calls each hold a token of their own and each has dispatched its
\* LEASE_SET, one of them after a hot miss.
C19_Witness ==
    \E i, j \in DOMAIN tasks :
        /\ tasks[i].call # tasks[j].call
        /\ tasks[i].req.op = "LEASE_SET"
        /\ tasks[j].req.op = "LEASE_SET"
        /\ tasks[i].req.leaseToken # tasks[j].req.leaseToken
        /\ Len(hist[tasks[j].call].got) >= 2

(***************************************************************************)
(* Termination of route(): every cache read request is eventually answered, *)
(* every back-off sleep eventually times out, and child_->route eventually  *)
(* returns.  Nothing is assumed of the write tasks: they may never be run   *)
(* and never be answered.  One route() call is followed, against a cache    *)
(* that is empty, or holds a reply another host stored, or has every lease  *)
(* held by another host, so that every LEASE_GET can be answered by a hot   *)
(* miss.                                                                    *)
(***************************************************************************)
TerminationConfigs ==
    {c \in Configs : c.keyPrefix = <<"p", ":">> /\ c.keySplitSize = 1}

\* Another host stored a reply under one key.
StoredElsewhere ==
    [EmptyCache EXCEPT
        !.store[<<"p", ":", "k">>] =
            Some(Serialize([result |-> "OK", message |-> "hi"]))]

InitTermination ==
    /\ route \in {Construct(c) : c \in TerminationConfigs}
    /\ fiber = [c \in Calls |-> IdleFiber]
    /\ tasks = << >>
    /\ cache \in {EmptyCache, StoredElsewhere, LeasesHeldElsewhere}
    /\ hist = [c \in Calls |-> EmptyHist]

NextTermination ==
    \/ \E req \in Requests : RouteBegin(1, req)
    \/ \E r \in AllCacheReplies : GetReply(1, r)
    \/ \E r \in AllCacheReplies : LeaseGetReply(1, r)
    \/ SleepDone(1)
    \/ \E reply \in Replies : ChildReturn(1, reply)
    \/ \E i \in DOMAIN tasks : TaskSend(i)
    \/ \E i \in DOMAIN tasks, o \in WriteResults : TaskReply(i, o)

SpecTermination ==
    /\ InitTermination
    /\ [][NextTermination]_vars
    /\ WF_vars(\E r \in AllCacheReplies : GetReply(1, r))
    /\ WF_vars(\E r \in AllCacheReplies : LeaseGetReply(1, r))
    /\ WF_vars(SleepDone(1))
    /\ WF_vars(\E reply \in Replies : ChildReturn(1, reply))

=============================================================================
